---- MODULE Spec2Model ----
(***************************************************************************)
(* EC2 cost report (ec2_cost_analysis_v2.py): the record normalizer, the   *)
(* aggregator and the report pipeline of main.                             *)
(*                                                                         *)
(* Spec is one run of main, statement by statement, on the documents it    *)
(* finds at its two input paths.  SpecCalls is single calls of             *)
(* df_daily_total, df_by_type, derive_daily_from_type and analyze, each on *)
(* an input drawn from the bounded sets below or on the table the call     *)
(* before it returned, and of date_range_from_days.                        *)
(*                                                                         *)
(* SpecDownloader is one run of main of aws_ec2_cost_data_downloader_v2.py *)
(* on a command line, a current date and the answers of Cost Explorer.  A  *)
(* command-line string is a record: a text that reads as a date is its     *)
(* year, month and day and whether the numbers are zero-padded, any other  *)
(* text is [text |-> ...].  A date is its proleptic Gregorian ordinal, as  *)
(* date.toordinal() gives it.                                              *)
(*                                                                         *)
(* SpecReports is one call of build_report, of aws_network_report_full_v2  *)
(* or of aws_resources_report_v2, as main makes it, statement by           *)
(* statement, on the answers of the AWS APIs: a collector returns its      *)
(* list, raises ClientError, or raises an exception of botocore that is    *)
(* not a ClientError.  A dict is a function from its keys; a dict whose    *)
(* order matters is the sequence of its items.                             *)
(*                                                                         *)
(* Values.  A JSON object is a record whose DOMAIN is the set of keys it   *)
(* carries, so a missing key is a missing field.  A date string is parsed  *)
(* by to_datetime into a day ordinal and printed back by strftime.  An     *)
(* amount string is parsed by float into thousandths of a USD (fixed       *)
(* point: the rounding of binary floating point is not modelled), and a    *)
(* mean is kept as the exact ratio [num, den].  A DataFrame is its set of  *)
(* column names and its sequence of rows, each row carrying its index      *)
(* label idx.  Documents that are not JSON, amounts that are not numbers   *)
(* and dates that are not dates are outside the inputs drawn.              *)
(***************************************************************************)
EXTENDS Integers, Sequences, FiniteSets, TLC

\* Bound on the input: the number of entries plus the number of groups that
\* one run reads (both documents together) or that one call is given.
MaxSize == 4

\* Bound on the downloader's --days: the values drawn are -1..MaxDays.
MaxDays == 2

\* Bounds on a run of build_report: the length of the region list, and the
\* number of ClientErrors the AWS APIs raise during the run.
MaxRegions == 2
MaxErrors == 2

---------------------------------------------------------------------------
(* Input alphabet *)

DateStrings == {"2024-01-01", "2024-01-02"}
AmountStrings == {"1.0", "2.5"}

\* pd.to_datetime on a YYYY-MM-DD string: the day, here as days since 1970-01-01.
to_datetime(s) ==
    CASE s = "2024-01-01" -> 19723
      [] s = "2024-01-02" -> 19724

\* Timestamp.strftime("%Y-%m-%d")
strftime(t) ==
    CASE t = 19723 -> "2024-01-01"
      [] t = 19724 -> "2024-01-02"

\* float(str), in thousandths of a USD
float(s) ==
    CASE s = "1.0" -> 1000
      [] s = "2.5" -> 2500

Metric(a) == [UnblendedCost |-> [Amount |-> a]]

\* Entries of the total series: the well-formed ones, one without TimePeriod
\* and one without Total.
TotalEntries ==
    {[TimePeriod |-> [Start |-> s], Total |-> Metric(a)] :
        s \in DateStrings, a \in AmountStrings}
    \cup {[Total |-> Metric("1.0")], [TimePeriod |-> [Start |-> "2024-01-01"]]}

\* Groups: labelled by one key or by two, with an empty key list, without
\* Keys, and one without Metrics.
Groups ==
    {[Keys |-> <<"t2.micro">>, Metrics |-> Metric(a)] : a \in AmountStrings}
    \cup {[Keys |-> <<"m5.large", "t2.micro">>, Metrics |-> Metric("1.0")],
          [Keys |-> <<>>, Metrics |-> Metric("2.5")],
          [Metrics |-> Metric("1.0")],
          [Keys |-> <<"t2.micro">>]}

\* The sequences over S of length exactly n.
SeqsOfLen(S, n) == {[i \in 1..n |-> q[i]] : q \in [1..n -> S]}

\* Entries of the grouped series with exactly n groups; with no group, also
\* the entries without Groups and one without TimePeriod.
GroupedEntries(n) ==
    {[TimePeriod |-> [Start |-> s], Groups |-> gs] :
        s \in DateStrings, gs \in SeqsOfLen(Groups, n)}
    \cup (IF n = 0
          THEN {[TimePeriod |-> [Start |-> s]] : s \in DateStrings} \cup {[Groups |-> <<>>]}
          ELSE {})

EntrySize(e) == 1 + (IF "Groups" \in DOMAIN e THEN Len(e.Groups) ELSE 0)

RECURSIVE FileSize(_)
\* The size of an input: its entries plus their groups.
FileSize(results) ==
    IF results = <<>> THEN 0 ELSE EntrySize(Head(results)) + FileSize(Tail(results))

RECURSIVE Shapes(_)
\* The group counts, entry by entry, of the inputs of size at most n.
Shapes(n) ==
    {<<>>} \cup UNION {{<<g>> \o s : s \in Shapes(n - 1 - g)} : g \in 0..n - 1}

RECURSIVE Fill(_)
\* The grouped series whose entries hold these numbers of groups.
Fill(shape) ==
    IF shape = <<>> THEN {<<>>}
    ELSE {<<e>> \o f : e \in GroupedEntries(Head(shape)), f \in Fill(Tail(shape))}

---------------------------------------------------------------------------
(* pandas *)

\* What a call leaves: the value it returns, or the exception it raises.
KeyError == [ok |-> FALSE, exc |-> "KeyError"]
Returned(v) == [ok |-> TRUE, val |-> v]

\* pd.DataFrame(rec): the columns are the keys of the records (none when rec
\* is empty), the index is 0..n-1.
DataFrame(rec) ==
    [columns |-> UNION {DOMAIN rec[i] : i \in 1..Len(rec)},
     rows    |-> [i \in 1..Len(rec) |->
                     [c \in DOMAIN rec[i] \cup {"idx"} |->
                         IF c = "idx" THEN i - 1 ELSE rec[i][c]]]]

\* DataFrame.empty
empty(df) == df.columns = {} \/ df.rows = <<>>

\* df["Date"] = pd.to_datetime(df["Date"])
ParseDates(df) ==
    [df EXCEPT !.rows = [i \in 1..Len(df.rows) |->
                            [df.rows[i] EXCEPT !.Date = to_datetime(@)]]]

\* Mutant of sort_values: the frame comes back as it was built.
sort_values_unsorted(df, by, ascending) == {df}

IsSortedBy(rows, col, ascending) ==
    \A i \in 1..Len(rows) - 1 :
        IF ascending THEN rows[i][col] <= rows[i + 1][col]
        ELSE rows[i][col] >= rows[i + 1][col]

Injections(n) == {p \in [1..n -> 1..n] : \A i, j \in 1..n : p[i] = p[j] => i = j}

\* df.sort_values(by, ascending=...) with the default kind="quicksort", which
\* is not stable: the rows come back in order of the column, rows with equal
\* keys in an order the numpy build decides.
sort_values(df, by, ascending) ==
    LET n == Len(df.rows)
    IN  {[df EXCEPT !.rows = [i \in 1..n |-> df.rows[p[i]]]] :
            p \in {q \in Injections(n) :
                      IsSortedBy([i \in 1..n |-> df.rows[q[i]]], by, ascending)}}

RECURSIVE SumCost(_)
\* Series.sum() of the Cost column
SumCost(rows) ==
    IF rows = <<>> THEN 0 ELSE Head(rows).Cost + SumCost(Tail(rows))

RECURSIVE SortAsc(_)
\* The elements of a set of numbers in ascending order.
SortAsc(S) ==
    IF S = {} THEN <<>>
    ELSE LET m == CHOOSE x \in S : \A y \in S : x <= y
         IN  <<m>> \o SortAsc(S \ {m})

---------------------------------------------------------------------------
(* Record normalizer *)

HasStart(e) == "TimePeriod" \in DOMAIN e /\ "Start" \in DOMAIN e.TimePeriod
HasAmount(m) == "UnblendedCost" \in DOMAIN m /\ "Amount" \in DOMAIN m.UnblendedCost

\* g["Metrics"]["UnblendedCost"]["Amount"] exists
GroupOk(g) == "Metrics" \in DOMAIN g /\ HasAmount(g.Metrics)

\* e.get("Groups", [])
GroupsOf(e) == IF "Groups" \in DOMAIN e THEN e.Groups ELSE <<>>

\* g["Keys"][0] if g.get("Keys") else "UNKNOWN"
InstanceTypeOf(g) ==
    IF "Keys" \in DOMAIN g /\ g.Keys # <<>> THEN g.Keys[1] ELSE "UNKNOWN"

GroupedEntryOk(e) ==
    HasStart(e) /\ \A j \in 1..Len(GroupsOf(e)) : GroupOk(GroupsOf(e)[j])

\* The records one entry of the grouped series appends to rec.
GroupRecords(e) ==
    [j \in 1..Len(GroupsOf(e)) |->
        [Date |-> e.TimePeriod.Start,
         InstanceType |-> InstanceTypeOf(GroupsOf(e)[j]),
         Cost |-> float(GroupsOf(e)[j].Metrics.UnblendedCost.Amount)]]

RECURSIVE ByTypeRecords(_)
ByTypeRecords(results) ==
    IF results = <<>> THEN <<>>
    ELSE GroupRecords(Head(results)) \o ByTypeRecords(Tail(results))

\* e["TimePeriod"]["Start"] and e["Total"]["UnblendedCost"]["Amount"] exist
TotalEntryOk(e) == HasStart(e) /\ "Total" \in DOMAIN e /\ HasAmount(e.Total)

\* Mutant of df_daily_total: an entry lacking a field is skipped.
df_daily_total_skip(results) ==
    LET kept == SelectSeq(results, TotalEntryOk)
        rec == [i \in 1..Len(kept) |->
                   [Date |-> kept[i].TimePeriod.Start,
                    Cost |-> float(kept[i].Total.UnblendedCost.Amount)]]
    IN  IF kept = <<>> THEN {KeyError}
        ELSE {Returned([columns |-> {"Date", "Cost"},
                        rows |-> [i \in 1..Len(kept) |->
                                     [idx |-> i - 1, Date |-> to_datetime(rec[i].Date),
                                      Cost |-> rec[i].Cost]]])}

\* df_daily_total(results): the outcomes of the call.
df_daily_total(results) ==
    IF \E i \in 1..Len(results) : ~TotalEntryOk(results[i]) THEN {KeyError}
    ELSE LET rec == [i \in 1..Len(results) |->
                        [Date |-> results[i].TimePeriod.Start,
                         Cost |-> float(results[i].Total.UnblendedCost.Amount)]]
             df == DataFrame(rec)
         IN  IF "Date" \notin df.columns THEN {KeyError}
             ELSE {Returned(d) : d \in sort_values(ParseDates(df), "Date", TRUE)}

\* df_by_type(results): the outcomes of the call.
df_by_type(results) ==
    IF \E i \in 1..Len(results) : ~GroupedEntryOk(results[i]) THEN {KeyError}
    ELSE LET df == DataFrame(ByTypeRecords(results))
         IN  IF "Date" \notin df.columns THEN {KeyError}
             ELSE {Returned(d) : d \in sort_values(ParseDates(df), "Date", TRUE)}

---------------------------------------------------------------------------
(* Aggregator *)

\* Mutant of GroupByDateSum: the first cost of each date instead of the sum.
GroupByDateFirst(df) ==
    LET dates == SortAsc({df.rows[i].Date : i \in 1..Len(df.rows)})
    IN  [columns |-> {"Date", "Cost"},
         rows    |-> [k \in 1..Len(dates) |->
                         [idx  |-> k - 1,
                          Date |-> dates[k],
                          Cost |-> Head(SelectSeq(df.rows,
                                      LAMBDA r : r.Date = dates[k])).Cost]]]

\* df_type.groupby("Date", as_index=False)["Cost"].sum(): one row per
\* distinct date, in ascending order of date, indexed 0..k-1.
GroupByDateSum(df) ==
    LET dates == SortAsc({df.rows[i].Date : i \in 1..Len(df.rows)})
    IN  [columns |-> {"Date", "Cost"},
         rows    |-> [k \in 1..Len(dates) |->
                         [idx  |-> k - 1,
                          Date |-> dates[k],
                          Cost |-> SumCost(SelectSeq(df.rows,
                                      LAMBDA r : r.Date = dates[k]))]]]

\* Mutant of derive_daily_from_type: the Date and Cost columns, not grouped.
derive_daily_ungrouped(df_type) ==
    {Returned([columns |-> {"Date", "Cost"},
               rows |-> [i \in 1..Len(df_type.rows) |->
                            [idx |-> df_type.rows[i].idx,
                             Date |-> df_type.rows[i].Date,
                             Cost |-> df_type.rows[i].Cost]]])}

\* derive_daily_from_type(df_type): the outcomes of the call.
derive_daily_from_type(df_type) ==
    IF "Date" \notin df_type.columns THEN {KeyError}
    ELSE {Returned(d) : d \in sort_values(GroupByDateSum(df_type), "Date", TRUE)}

\* Mutant of ArgMax: the last row whose Cost is the largest.
ArgMaxLast(rows) ==
    CHOOSE i \in 1..Len(rows) :
        /\ \A j \in 1..Len(rows) : rows[j].Cost <= rows[i].Cost
        /\ \A j \in i + 1..Len(rows) : rows[j].Cost < rows[i].Cost

\* The position of the first row whose Cost is the largest (smallest).
ArgMax(rows) ==
    CHOOSE i \in 1..Len(rows) :
        /\ \A j \in 1..Len(rows) : rows[j].Cost <= rows[i].Cost
        /\ \A j \in 1..i - 1 : rows[j].Cost < rows[i].Cost
ArgMin(rows) ==
    CHOOSE i \in 1..Len(rows) :
        /\ \A j \in 1..Len(rows) : rows[j].Cost >= rows[i].Cost
        /\ \A j \in 1..i - 1 : rows[j].Cost > rows[i].Cost

\* df.loc[label, "Date"]
LocDate(df, label) ==
    (CHOOSE r \in {df.rows[i] : i \in 1..Len(df.rows)} : r.idx = label).Date

\* Mutant of analyze: the mean is taken over the distinct dates.
analyze_per_date(df_daily) ==
    IF empty(df_daily)
    THEN [total_cost |-> 0, average_cost |-> [num |-> 0, den |-> 1],
          max_cost |-> 0, max_cost_date |-> "None",
          min_cost |-> 0, min_cost_date |-> "None"]
    ELSE LET rows == df_daily.rows
         IN  [total_cost    |-> SumCost(rows),
              average_cost  |-> [num |-> SumCost(rows),
                                 den |-> Cardinality({rows[i].Date : i \in 1..Len(rows)})],
              max_cost      |-> rows[ArgMax(rows)].Cost,
              max_cost_date |-> strftime(LocDate(df_daily, rows[ArgMax(rows)].idx)),
              min_cost      |-> rows[ArgMin(rows)].Cost,
              min_cost_date |-> strftime(LocDate(df_daily, rows[ArgMin(rows)].idx))]

\* Mutant of analyze: no branch for the empty table, so the statistics are
\* those pandas gives for no rows (a zero sum, a 0/0 mean, NaT dates).
analyze_unguarded(df_daily) ==
    LET rows == df_daily.rows
    IN  IF rows = <<>>
        THEN [total_cost |-> 0, average_cost |-> [num |-> 0, den |-> 0],
              max_cost |-> 0, max_cost_date |-> "NaT",
              min_cost |-> 0, min_cost_date |-> "NaT"]
        ELSE [total_cost    |-> SumCost(rows),
              average_cost  |-> [num |-> SumCost(rows), den |-> Len(rows)],
              max_cost      |-> rows[ArgMax(rows)].Cost,
              max_cost_date |-> strftime(LocDate(df_daily, rows[ArgMax(rows)].idx)),
              min_cost      |-> rows[ArgMin(rows)].Cost,
              min_cost_date |-> strftime(LocDate(df_daily, rows[ArgMin(rows)].idx))]

\* analyze(df_daily)
analyze(df_daily) ==
    IF empty(df_daily)
    THEN [total_cost |-> 0, average_cost |-> [num |-> 0, den |-> 1],
          max_cost |-> 0, max_cost_date |-> "None",
          min_cost |-> 0, min_cost_date |-> "None"]
    ELSE LET rows == df_daily.rows
             imax == rows[ArgMax(rows)].idx   \* Series.idxmax()
             imin == rows[ArgMin(rows)].idx   \* Series.idxmin()
         IN  [total_cost    |-> SumCost(rows),
              average_cost  |-> [num |-> SumCost(rows), den |-> Len(rows)],
              max_cost      |-> rows[ArgMax(rows)].Cost,
              max_cost_date |-> strftime(LocDate(df_daily, imax)),
              min_cost      |-> rows[ArgMin(rows)].Cost,
              min_cost_date |-> strftime(LocDate(df_daily, imin))]

---------------------------------------------------------------------------
(* Chart renderer: the table plot_by_type draws *)

\* The order of str on the instance-type labels (uppercase before lowercase).
TypeRank(t) ==
    CASE t = "UNKNOWN"  -> 0
      [] t = "m5.large" -> 1
      [] t = "t2.micro" -> 2

\* df_type.groupby("InstanceType", as_index=False)["Cost"].sum(): one row per
\* distinct label, in ascending order of label, indexed 0..k-1.
GroupByTypeSum(df) ==
    LET types == {df.rows[i].InstanceType : i \in 1..Len(df.rows)}
        ranks == SortAsc({TypeRank(t) : t \in types})
        label(k) == CHOOSE t \in types : TypeRank(t) = ranks[k]
    IN  [columns |-> {"InstanceType", "Cost"},
         rows    |-> [k \in 1..Len(ranks) |->
                         [idx  |-> k - 1,
                          InstanceType |-> label(k),
                          Cost |-> SumCost(SelectSeq(df.rows,
                                      LAMBDA r : r.InstanceType = label(k)))]]]

\* Mutant of BarTotals: the grouped table as groupby leaves it, not sorted.
BarTotalsUnsorted(df_type) == {GroupByTypeSum(df_type)}

\* totals of plot_by_type: the outcomes.
BarTotals(df_type) == sort_values(GroupByTypeSum(df_type), "Cost", FALSE)

---------------------------------------------------------------------------
(* Cost downloader: dates and the command line *)

\* Strings: "" and the texts that read as year-month-day.
EmptyString == [text |-> ""]
DateText(y, m, d, padded) == [y |-> y, m |-> m, d |-> d, padded |-> padded]

ValueError == [ok |-> FALSE, exc |-> "ValueError"]

\* The calendar of datetime.date
IsLeap(y) == y % 4 = 0 /\ (y % 100 # 0 \/ y % 400 = 0)
DaysInMonth(y, m) ==
    CASE m \in {1, 3, 5, 7, 8, 10, 12} -> 31
      [] m \in {4, 6, 9, 11} -> 30
      [] m = 2 -> IF IsLeap(y) THEN 29 ELSE 28
DaysBeforeYear(y) ==
    (y - 1) * 365 + (y - 1) \div 4 - (y - 1) \div 100 + (y - 1) \div 400
DaysBeforeMonth(y, m) ==
    LET f[k \in 0..12] == IF k = 0 THEN 0 ELSE f[k - 1] + DaysInMonth(y, k)
    IN  f[m - 1]

\* date(y, m, d).toordinal()
toordinal(y, m, d) == DaysBeforeYear(y) + DaysBeforeMonth(y, m) + d

\* date.fromordinal(n), as year, month and day: the 400-, 100-, 4- and
\* 1-year cycles of the calendar, then the month.
fromordinal(n) ==
    LET n0 == n - 1
        n400 == n0 \div 146097
        r400 == n0 % 146097
        n100 == r400 \div 36524
        r100 == r400 % 36524
        n4 == r100 \div 1461
        r4 == r100 % 1461
        n1 == r4 \div 365
        r1 == r4 % 365
        year == n400 * 400 + 1 + n100 * 100 + n4 * 4 + n1
        m0 == (r1 + 50) \div 32
        month == IF DaysBeforeMonth(year, m0) > r1 THEN m0 - 1 ELSE m0
    IN  IF n1 = 4 \/ n100 = 4
        THEN [y |-> year - 1, m |-> 12, d |-> 31]
        ELSE [y |-> year, m |-> month, d |-> r1 - DaysBeforeMonth(year, month) + 1]

\* datetime.strptime(s, "%Y-%m-%d").date(): the date, or ValueError when the
\* text is not a date of the calendar.  Padding is not required.
strptime(s) ==
    IF "text" \in DOMAIN s THEN ValueError
    ELSE IF s.m \in 1..12 /\ s.d \in 1..DaysInMonth(s.y, s.m)
         THEN Returned(toordinal(s.y, s.m, s.d))
         ELSE ValueError

\* date.strftime("%Y-%m-%d"): zero-padded
strftime_ymd(date) ==
    LET c == fromordinal(date) IN DateText(c.y, c.m, c.d, TRUE)

\* parse_date(s): s itself once strptime has accepted it
parse_date(s) == IF strptime(s).ok THEN Returned(s) ELSE ValueError

\* date_range_from_days(days), today being datetime.utcnow().date()
date_range_from_days(days, today) ==
    LET end == today
        start == end - days
        end_exclusive == end + 1
    IN  <<strftime_ymd(start), strftime_ymd(end_exclusive)>>

\* An option of the command line: left out, or given with a value.
NotGiven == [given |-> FALSE]
Given(v) == [given |-> TRUE, value |-> v]

\* argparse, for an option with type=parse_date and default="": the given
\* string is converted by parse_date; when the option is left out the
\* default, being a str, is converted by parse_date as well.
DateOption(opt) == IF opt.given THEN parse_date(opt.value) ELSE parse_date(EmptyString)

\* ap.parse_args(): the namespace, or the usage error (exit status 2) when a
\* conversion raised ValueError.
parse_args(argv) ==
    LET start == DateOption(argv.start)
        end == DateOption(argv.end)
    IN  IF start.ok /\ end.ok
        THEN Returned([days |-> IF argv.days.given THEN argv.days.value ELSE 30,
                       start |-> start.val,
                       end |-> end.val,
                       granularity |-> IF argv.granularity.given
                                       THEN argv.granularity.value ELSE "DAILY"])
        ELSE [ok |-> FALSE, exc |-> "SystemExit: 2"]

\* bool(s) of a str
Truthy(s) == s # EmptyString

\* main, lines 74-78: the period asked for
QueryRange(args, today) ==
    IF Truthy(args.start) /\ Truthy(args.end)
    THEN <<args.start, strftime_ymd(strptime(args.end).val + 1)>>
    ELSE date_range_from_days(args.days, today)

\* The call ce.get_cost_and_usage(...) that get_cost_total and
\* get_cost_by_instance_type send.
CostRequest(fn, start, end, granularity, response) ==
    [fn |-> fn, TimePeriod |-> [Start |-> start, End |-> end],
     Granularity |-> granularity, response |-> response]

\* The values drawn for the command line, the clock and Cost Explorer.
DateArguments ==
    {DateText(2024, 2, 28, TRUE), DateText(2024, 2, 28, FALSE),
     DateText(2024, 2, 29, TRUE), DateText(2023, 2, 29, TRUE),
     DateText(2023, 12, 31, TRUE), EmptyString}
Todays == {toordinal(2024, 3, 1), toordinal(2023, 12, 31), toordinal(2024, 2, 28)}
DaysArguments == -1..MaxDays
TotalResults ==
    {<<>>, <<[TimePeriod |-> [Start |-> "2024-01-01"], Total |-> Metric("1.0")]>>}
ByTypeResults ==
    {<<>>, <<[TimePeriod |-> [Start |-> "2024-01-01"],
             Groups |-> <<[Keys |-> <<"t2.micro">>, Metrics |-> Metric("1.0")]>>]>>}

---------------------------------------------------------------------------
(* State *)

VARIABLES
    pc,            \* main: the statement about to run, "exited" at the end
    exit,          \* main: how the process ended ("" while it runs)
    images_dir,    \* out_dir/images: "absent", "directory", "not a directory"
    type_exists,   \* whether there is a file at type_path: "yes" or "no"
    daily_exists,  \* what os.path.exists(daily_path) answered
    type_json,     \* the document at type_path, once load_json has read it
    daily_json,    \* the document at daily_path, once load_json has read it
    df_type, df_daily, analysis, bar_totals,
    line_png,      \* images/cost_over_time.png
    bar_png,       \* images/cost_per_instance_type.png
    report,        \* ec2_cost_report.html
    stdout,
    h_in,          \* one call: the kind of input drawn
    h_fn,          \* one call: the function applied last
    h_arg,         \* one call: its argument
    h_res,         \* one call: what it left
    d_pc,          \* downloader main: the statement about to run
    d_exit,        \* downloader: how the process ended ("" while it runs)
    d_argv,        \* downloader: the command line
    d_today,       \* downloader: datetime.utcnow().date()
    d_args,        \* downloader: the namespace parse_args returned
    d_start, d_end, d_total, d_by_type,
    d_requests,    \* the calls Cost Explorer has received, with its answers
    d_total_file,  \* out_dir/ec2_cost_data_daily_total.json
    d_type_file,   \* out_dir/ec2_cost_data_per_instance_type.json
    d_stdout,
    r_pc,          \* build_report: the statement about to run
    r_script,      \* which script runs: "network" or "resources"
    r_include_iam, \* resources: args.include_iam
    r_regions,     \* the region list main passes
    r_i, r_j,      \* the region and the category being collected
    r_block,       \* block
    r_report,      \* report
    r_calls,       \* the collectors called so far, with what they left
    r_errors       \* the ClientErrors raised so far

\* What the process holds in memory, and what it reads and leaves outside.
memVars == <<df_type, df_daily, analysis, bar_totals>>
envVars == <<images_dir, type_exists, daily_exists, type_json, daily_json, line_png,
             bar_png, report, stdout>>
mainVars == <<pc, exit, memVars, envVars>>
callVars == <<h_in, h_fn, h_arg, h_res>>
dMemVars == <<d_args, d_start, d_end, d_total, d_by_type>>
dEnvVars == <<d_argv, d_today, d_requests, d_total_file, d_type_file, d_stdout>>
downloaderVars == <<d_pc, d_exit, dMemVars, dEnvVars>>
reportVars == <<r_pc, r_script, r_include_iam, r_regions, r_i, r_j, r_block,
                r_report, r_calls, r_errors>>
vars == <<mainVars, callVars, downloaderVars, reportVars>>

Unset == [unset |-> TRUE]
Loaded(doc) == [doc |-> doc]

Absent == [state |-> "absent"]
Partial == [state |-> "partial"]
Image == [state |-> "complete"]

\* The document write_html composes (the 4-decimal formatting of the numbers
\* and the timestamp are left out).
Html(summary, line_plot, bar_plot) ==
    [state |-> "complete", summary |-> summary, img |-> <<line_plot, bar_plot>>]

MainIdle ==
    /\ pc = "idle" /\ exit = "" /\ images_dir = "absent"
    /\ type_exists = "?" /\ daily_exists = "?"
    /\ type_json = Unset /\ daily_json = Unset /\ df_type = Unset
    /\ df_daily = Unset /\ analysis = Unset /\ bar_totals = Unset
    /\ line_png = Absent /\ bar_png = Absent /\ report = Absent /\ stdout = <<>>

CallsIdle ==
    /\ h_in = "idle" /\ h_fn = "none" /\ h_arg = Unset /\ h_res = Unset

ReportsIdle ==
    /\ r_pc = "idle" /\ r_script = "none" /\ r_include_iam = FALSE
    /\ r_regions = <<>> /\ r_i = 0 /\ r_j = 0 /\ r_block = <<>>
    /\ r_report = Unset /\ r_calls = <<>> /\ r_errors = 0

DownloaderIdle ==
    /\ d_pc = "idle" /\ d_exit = "" /\ d_argv = Unset /\ d_today = 0
    /\ d_args = Unset /\ d_start = Unset /\ d_end = Unset
    /\ d_total = Unset /\ d_by_type = Unset /\ d_requests = <<>>
    /\ d_total_file = Absent /\ d_type_file = Absent /\ d_stdout = <<>>

---------------------------------------------------------------------------
(* main *)

MainInit ==
    /\ pc = "start" /\ exit = ""
    /\ images_dir \in {"absent", "directory", "not a directory"}
    /\ type_exists \in {"yes", "no"} /\ daily_exists = "?"
    /\ type_json = Unset /\ daily_json = Unset /\ df_type = Unset
    /\ df_daily = Unset /\ analysis = Unset /\ bar_totals = Unset
    /\ line_png = Absent /\ bar_png = Absent /\ report = Absent /\ stdout = <<>>

\* The process ends, by SystemExit, by an uncaught exception or off the end
\* of main: what it held in memory is gone.
Exit(status) ==
    /\ pc' = "exited" /\ exit' = status
    /\ df_type' = Unset /\ df_daily' = Unset /\ analysis' = Unset
    /\ bar_totals' = Unset

\* What raise SystemExit(f"Falta archivo requerido: {type_path}") leaves: the
\* message on stderr and exit status 1 (in_dir being the default ".").
MissingRequiredInput ==
    "SystemExit: Falta archivo requerido: ./ec2_cost_data_per_instance_type.json"

\* os.makedirs(images_dir, exist_ok=True), the first statement of main that
\* touches the file system: the directories are there or are made, or
\* OSError is raised, because a file is in the way of one of them or because
\* they cannot be made.
MakeImagesDir ==
    /\ pc = "start"
    /\ \/ /\ images_dir \in {"absent", "directory"}
          /\ images_dir' = "directory"
          /\ pc' = "check"
          /\ UNCHANGED <<exit, memVars>>
       \/ /\ images_dir \in {"absent", "not a directory"}
          /\ images_dir' = images_dir
          /\ Exit("OSError")
    /\ UNCHANGED <<type_exists, daily_exists, type_json, daily_json, line_png,
                   bar_png, report, stdout>>

\* Mutant of CheckInputs: the answer of os.path.exists is not acted on.
CheckInputsUnchecked ==
    /\ pc = "check"
    /\ pc' = "load_type"
    /\ UNCHANGED <<exit, memVars, envVars>>

\* if not os.path.exists(type_path): raise SystemExit(...)
CheckInputs ==
    /\ pc = "check"
    /\ IF type_exists = "yes"
       THEN pc' = "load_type" /\ UNCHANGED <<exit, memVars>>
       ELSE Exit(MissingRequiredInput)
    /\ UNCHANGED envVars

\* df_type = df_by_type(load_json(type_path))
LoadType ==
    /\ pc = "load_type"
    /\ \E shape \in Shapes(MaxSize) : \E doc \in Fill(shape) :
       \E r \in df_by_type(doc) :
          /\ type_json' = Loaded(doc)
          /\ IF r.ok
             THEN /\ df_type' = r.val /\ pc' = "daily"
                  /\ UNCHANGED <<exit, df_daily, analysis, bar_totals>>
             ELSE Exit(r.exc)
    /\ UNCHANGED <<images_dir, type_exists, daily_exists, daily_json, line_png, bar_png,
                   report, stdout>>

\* Mutant of LoadDaily: the total series is read and checked, and the daily
\* table is then recomputed from the grouped series.
LoadDailyRecomputed ==
    /\ pc = "daily"
    /\ daily_exists' = "yes"
    /\ \E k \in 0..(MaxSize - FileSize(type_json.doc)) :
       \E doc \in SeqsOfLen(TotalEntries, k) :
       \E r \in df_daily_total(doc) :
          /\ daily_json' = Loaded(doc)
          /\ IF r.ok
             THEN /\ \E d \in derive_daily_from_type(df_type) : df_daily' = d.val
                  /\ pc' = "analyze"
                  /\ UNCHANGED <<exit, df_type, analysis, bar_totals>>
             ELSE Exit(r.exc)
    /\ UNCHANGED <<images_dir, type_exists, type_json, line_png, bar_png, report, stdout>>

\* if os.path.exists(daily_path): df_daily = df_daily_total(load_json(daily_path))
LoadDaily ==
    /\ pc = "daily"
    /\ daily_exists' = "yes"
    /\ \E k \in 0..(MaxSize - FileSize(type_json.doc)) :
       \E doc \in SeqsOfLen(TotalEntries, k) :
       \E r \in df_daily_total(doc) :
          /\ daily_json' = Loaded(doc)
          /\ IF r.ok
             THEN /\ df_daily' = r.val /\ pc' = "analyze"
                  /\ UNCHANGED <<exit, df_type, analysis, bar_totals>>
             ELSE Exit(r.exc)
    /\ UNCHANGED <<images_dir, type_exists, type_json, line_png, bar_png, report, stdout>>

\* else: df_daily = derive_daily_from_type(df_type)
DeriveDaily ==
    /\ pc = "daily"
    /\ daily_exists' = "no"
    /\ \E r \in derive_daily_from_type(df_type) :
          IF r.ok
          THEN /\ df_daily' = r.val /\ pc' = "analyze"
               /\ UNCHANGED <<exit, df_type, analysis, bar_totals>>
          ELSE Exit(r.exc)
    /\ UNCHANGED <<images_dir, type_exists, type_json, daily_json, line_png, bar_png,
                   report, stdout>>

\* analysis = analyze(df_daily)
Analyze ==
    /\ pc = "analyze"
    /\ analysis' = analyze(df_daily)
    /\ pc' = "plot_daily"
    /\ UNCHANGED <<exit, df_type, df_daily, bar_totals, envVars>>

\* Mutant of PlotDaily: a failure of savefig is swallowed and main goes on.
PlotDailyUnchecked ==
    /\ pc = "plot_daily"
    /\ \E left \in {Absent, Partial, Image} : line_png' = left
    /\ pc' = "plot_by_type"
    /\ UNCHANGED <<exit, memVars, images_dir, type_exists, daily_exists, type_json,
                   daily_json, bar_png, report, stdout>>

\* line_plot = plot_daily(df_daily, images_dir); savefig writes the image or
\* raises OSError, leaving no file or part of one.
PlotDaily ==
    /\ pc = "plot_daily"
    /\ \E left \in {Absent, Partial, Image} :
          /\ line_png' = left
          /\ IF left = Image
             THEN pc' = "plot_by_type" /\ UNCHANGED <<exit, memVars>>
             ELSE Exit("OSError")
    /\ UNCHANGED <<images_dir, type_exists, daily_exists, type_json, daily_json, bar_png,
                   report, stdout>>

\* bar_plot = plot_by_type(df_type, images_dir)
PlotByType ==
    /\ pc = "plot_by_type"
    /\ \E totals \in BarTotals(df_type) : \E left \in {Absent, Partial, Image} :
          /\ bar_png' = left
          /\ IF left = Image
             THEN /\ bar_totals' = totals /\ pc' = "open_report"
                  /\ UNCHANGED <<exit, df_type, df_daily, analysis>>
             ELSE Exit("OSError")
    /\ UNCHANGED <<images_dir, type_exists, daily_exists, type_json, daily_json, line_png,
                   report, stdout>>

\* write_html: open(report_path, "w") creates the file empty, or raises.
OpenReport ==
    /\ pc = "open_report"
    /\ \E opened \in BOOLEAN :
          IF opened
          THEN report' = Partial /\ pc' = "write_report" /\ UNCHANGED <<exit, memVars>>
          ELSE report' = report /\ Exit("OSError")
    /\ UNCHANGED <<images_dir, type_exists, daily_exists, type_json, daily_json, line_png,
                   bar_png, stdout>>

\* write_html: f.write(html) and the close of the with block, or OSError with
\* part of the document on disk.
WriteReport ==
    /\ pc = "write_report"
    /\ \E written \in BOOLEAN :
          IF written
          THEN /\ report' = Html(analysis, "images/cost_over_time.png",
                                 "images/cost_per_instance_type.png")
               /\ pc' = "print" /\ UNCHANGED <<exit, memVars>>
          ELSE report' = Partial /\ Exit("OSError")
    /\ UNCHANGED <<images_dir, type_exists, daily_exists, type_json, daily_json, line_png,
                   bar_png, stdout>>

\* print(f"OK. Reporte generado: {report_path}"), and main returns
PrintOk ==
    /\ pc = "print"
    /\ stdout' = Append(stdout, "OK. Reporte generado")
    /\ Exit("0")
    /\ UNCHANGED <<images_dir, type_exists, daily_exists, type_json, daily_json, line_png,
                   bar_png, report>>

Init == MainInit /\ CallsIdle /\ DownloaderIdle /\ ReportsIdle

Next ==
    \/ MakeImagesDir /\ UNCHANGED <<callVars, downloaderVars, reportVars>>
    \/ CheckInputs /\ UNCHANGED <<callVars, downloaderVars, reportVars>>
    \/ LoadType /\ UNCHANGED <<callVars, downloaderVars, reportVars>>
    \/ LoadDaily /\ UNCHANGED <<callVars, downloaderVars, reportVars>>
    \/ DeriveDaily /\ UNCHANGED <<callVars, downloaderVars, reportVars>>
    \/ Analyze /\ UNCHANGED <<callVars, downloaderVars, reportVars>>
    \/ PlotDaily /\ UNCHANGED <<callVars, downloaderVars, reportVars>>
    \/ PlotByType /\ UNCHANGED <<callVars, downloaderVars, reportVars>>
    \/ OpenReport /\ UNCHANGED <<callVars, downloaderVars, reportVars>>
    \/ WriteReport /\ UNCHANGED <<callVars, downloaderVars, reportVars>>
    \/ PrintOk /\ UNCHANGED <<callVars, downloaderVars, reportVars>>

Spec == Init /\ [][Next]_vars

---------------------------------------------------------------------------
(* Single calls of the normalizer and the aggregator *)

CallsInit ==
    /\ h_fn = "none" /\ h_arg = Unset
    /\ \/ /\ h_in = "total_series"
          /\ \E k \in 0..MaxSize : \E doc \in SeqsOfLen(TotalEntries, k) :
                h_res = Returned(doc)
       \/ /\ h_in = "grouped_series"
          /\ \E shape \in Shapes(MaxSize) : \E doc \in Fill(shape) :
                h_res = Returned(doc)
       \/ /\ h_in = "DataFrame"
          /\ h_res = Returned(DataFrame(<<>>))
       \/ /\ h_in = "days"
          /\ \E days \in DaysArguments \cup {30} : \E today \in Todays :
                h_res = Returned([days |-> days, today |-> today])

Call_df_daily_total ==
    /\ h_fn = "none" /\ h_in = "total_series"
    /\ h_fn' = "df_daily_total"
    /\ h_arg' = h_res.val
    /\ h_res' \in df_daily_total(h_res.val)
    /\ UNCHANGED h_in

Call_df_by_type ==
    /\ h_fn = "none" /\ h_in = "grouped_series"
    /\ h_fn' = "df_by_type"
    /\ h_arg' = h_res.val
    /\ h_res' \in df_by_type(h_res.val)
    /\ UNCHANGED h_in

Call_derive_daily_from_type ==
    /\ h_fn = "df_by_type" /\ h_res.ok
    /\ h_fn' = "derive_daily_from_type"
    /\ h_arg' = h_res.val
    /\ h_res' \in derive_daily_from_type(h_res.val)
    /\ UNCHANGED h_in

Call_analyze ==
    /\ \/ h_fn \in {"df_daily_total", "derive_daily_from_type"} /\ h_res.ok
       \/ h_fn = "none" /\ h_in = "DataFrame"
    /\ h_fn' = "analyze"
    /\ h_arg' = h_res.val
    /\ h_res' = Returned(analyze(h_res.val))
    /\ UNCHANGED h_in

Call_date_range_from_days ==
    /\ h_fn = "none" /\ h_in = "days"
    /\ h_fn' = "date_range_from_days"
    /\ h_arg' = h_res.val
    /\ h_res' = Returned(date_range_from_days(h_res.val.days, h_res.val.today))
    /\ UNCHANGED h_in

NextCalls ==
    \/ Call_df_daily_total /\ UNCHANGED <<mainVars, downloaderVars, reportVars>>
    \/ Call_df_by_type /\ UNCHANGED <<mainVars, downloaderVars, reportVars>>
    \/ Call_derive_daily_from_type /\ UNCHANGED <<mainVars, downloaderVars, reportVars>>
    \/ Call_analyze /\ UNCHANGED <<mainVars, downloaderVars, reportVars>>
    \/ Call_date_range_from_days /\ UNCHANGED <<mainVars, downloaderVars, reportVars>>

InitCalls == MainIdle /\ CallsInit /\ DownloaderIdle /\ ReportsIdle

SpecCalls == InitCalls /\ [][NextCalls]_vars

---------------------------------------------------------------------------
(* Cost downloader: main *)

\* A file left by an earlier run.
Previous == [state |-> "previous"]
\* What json.dump(results, f) leaves once the with block has closed.
JsonFile(results) == [state |-> "complete", doc |-> results]

UsageError == "SystemExit: 2"
CostExplorerError == "SystemExit: ERROR Cost Explorer"

DownloaderStart ==
    /\ d_pc = "parse_args" /\ d_exit = ""
    /\ d_argv \in [days : {NotGiven} \cup {Given(v) : v \in DaysArguments},
                   start : {NotGiven} \cup {Given(t) : t \in DateArguments},
                   end : {NotGiven} \cup {Given(t) : t \in DateArguments},
                   granularity : {NotGiven, Given("MONTHLY")}]
    /\ d_today \in Todays
    /\ d_args = Unset /\ d_start = Unset /\ d_end = Unset
    /\ d_total = Unset /\ d_by_type = Unset /\ d_requests = <<>>
    /\ d_total_file \in {Absent, Previous} /\ d_type_file \in {Absent, Previous}
    /\ d_stdout = <<>>

\* The downloader ends: what it held in memory is gone.
DownloaderExit(status) ==
    /\ d_pc' = "exited" /\ d_exit' = status
    /\ d_args' = Unset /\ d_start' = Unset /\ d_end' = Unset
    /\ d_total' = Unset /\ d_by_type' = Unset

\* args = ap.parse_args()
ParseArgs ==
    /\ d_pc = "parse_args"
    /\ LET r == parse_args(d_argv)
       IN  IF r.ok
           THEN /\ d_args' = r.val /\ d_pc' = "range"
                /\ UNCHANGED <<d_exit, d_start, d_end, d_total, d_by_type>>
           ELSE DownloaderExit(r.exc)
    /\ UNCHANGED dEnvVars

\* if args.start and args.end: ... else: start, end = date_range_from_days(args.days)
ChooseRange ==
    /\ d_pc = "range"
    /\ d_start' = QueryRange(d_args, d_today)[1]
    /\ d_end' = QueryRange(d_args, d_today)[2]
    /\ d_pc' = "makedirs"
    /\ UNCHANGED <<d_exit, d_args, d_total, d_by_type, dEnvVars>>

\* os.makedirs(args.out_dir, exist_ok=True)
MakeOutDir ==
    /\ d_pc = "makedirs"
    /\ \E made \in BOOLEAN :
          IF made THEN d_pc' = "get_total" /\ UNCHANGED <<d_exit, dMemVars>>
          ELSE DownloaderExit("OSError")
    /\ UNCHANGED dEnvVars

\* total = get_cost_total(start, end, args.granularity): the results, a
\* ClientError, which main turns into SystemExit, or an exception of
\* botocore that is not a ClientError, which nothing catches.
GetCostTotal ==
    /\ d_pc = "get_total"
    /\ \/ \E results \in TotalResults :
             /\ d_requests' = Append(d_requests,
                    CostRequest("get_cost_total", d_start, d_end,
                                d_args.granularity, "ok"))
             /\ d_total' = results /\ d_pc' = "get_by_type"
             /\ UNCHANGED <<d_exit, d_args, d_start, d_end, d_by_type>>
       \/ \E e \in {"ClientError", "BotoCoreError"} :
             /\ d_requests' = Append(d_requests,
                    CostRequest("get_cost_total", d_start, d_end,
                                d_args.granularity, e))
             /\ DownloaderExit(IF e = "ClientError" THEN CostExplorerError ELSE e)
    /\ UNCHANGED <<d_argv, d_today, d_total_file, d_type_file, d_stdout>>

\* Mutant of GetCostByType: a ClientError is taken for an empty answer.
GetCostByTypeSwallowed ==
    /\ d_pc = "get_by_type"
    /\ \/ \E results \in ByTypeResults :
             /\ d_requests' = Append(d_requests,
                    CostRequest("get_cost_by_instance_type", d_start, d_end,
                                d_args.granularity, "ok"))
             /\ d_by_type' = results /\ d_pc' = "write_total"
             /\ UNCHANGED <<d_exit, d_args, d_start, d_end, d_total>>
       \/ /\ d_requests' = Append(d_requests,
                    CostRequest("get_cost_by_instance_type", d_start, d_end,
                                d_args.granularity, "ClientError"))
          /\ d_by_type' = <<>> /\ d_pc' = "write_total"
          /\ UNCHANGED <<d_exit, d_args, d_start, d_end, d_total>>
    /\ UNCHANGED <<d_argv, d_today, d_total_file, d_type_file, d_stdout>>

\* by_type = get_cost_by_instance_type(start, end, args.granularity)
GetCostByType ==
    /\ d_pc = "get_by_type"
    /\ \/ \E results \in ByTypeResults :
             /\ d_requests' = Append(d_requests,
                    CostRequest("get_cost_by_instance_type", d_start, d_end,
                                d_args.granularity, "ok"))
             /\ d_by_type' = results /\ d_pc' = "write_total"
             /\ UNCHANGED <<d_exit, d_args, d_start, d_end, d_total>>
       \/ \E e \in {"ClientError", "BotoCoreError"} :
             /\ d_requests' = Append(d_requests,
                    CostRequest("get_cost_by_instance_type", d_start, d_end,
                                d_args.granularity, e))
             /\ DownloaderExit(IF e = "ClientError" THEN CostExplorerError ELSE e)
    /\ UNCHANGED <<d_argv, d_today, d_total_file, d_type_file, d_stdout>>

\* with open(total_path, "w") as f: json.dump(total, f): the file written,
\* or OSError from open with the file as it was, or OSError from the write
\* with part of the document on disk.
WriteTotal ==
    /\ d_pc = "write_total"
    /\ \E left \in {d_total_file, Partial, JsonFile(d_total)} :
          /\ d_total_file' = left
          /\ IF left = JsonFile(d_total)
             THEN d_pc' = "write_type" /\ UNCHANGED <<d_exit, dMemVars>>
             ELSE DownloaderExit("OSError")
    /\ UNCHANGED <<d_argv, d_today, d_requests, d_type_file, d_stdout>>

\* with open(type_path, "w") as f: json.dump(by_type, f)
WriteByType ==
    /\ d_pc = "write_type"
    /\ \E left \in {d_type_file, Partial, JsonFile(d_by_type)} :
          /\ d_type_file' = left
          /\ IF left = JsonFile(d_by_type)
             THEN d_pc' = "print" /\ UNCHANGED <<d_exit, dMemVars>>
             ELSE DownloaderExit("OSError")
    /\ UNCHANGED <<d_argv, d_today, d_requests, d_total_file, d_stdout>>

\* The three print calls, and main returns.
PrintGenerated ==
    /\ d_pc = "print"
    /\ d_stdout' = <<"OK. Rango", "Generado: ec2_cost_data_daily_total.json",
                     "Generado: ec2_cost_data_per_instance_type.json">>
    /\ DownloaderExit("0")
    /\ UNCHANGED <<d_argv, d_today, d_requests, d_total_file, d_type_file>>

InitDownloader == MainIdle /\ CallsIdle /\ DownloaderStart /\ ReportsIdle

NextDownloader ==
    \/ ParseArgs /\ UNCHANGED <<mainVars, callVars, reportVars>>
    \/ ChooseRange /\ UNCHANGED <<mainVars, callVars, reportVars>>
    \/ MakeOutDir /\ UNCHANGED <<mainVars, callVars, reportVars>>
    \/ GetCostTotal /\ UNCHANGED <<mainVars, callVars, reportVars>>
    \/ GetCostByType /\ UNCHANGED <<mainVars, callVars, reportVars>>
    \/ WriteTotal /\ UNCHANGED <<mainVars, callVars, reportVars>>
    \/ WriteByType /\ UNCHANGED <<mainVars, callVars, reportVars>>
    \/ PrintGenerated /\ UNCHANGED <<mainVars, callVars, reportVars>>

SpecDownloader == InitDownloader /\ [][NextDownloader]_vars

---------------------------------------------------------------------------
(* Network and resources reports: build_report *)

RegionNames == {"eu-west-1", "us-east-1"}

\* The keys build_report fills in a region's block, in the order of its
\* try statements.
Categories(script) ==
    IF script = "network"
    THEN <<"vpcs", "security_groups", "ec2_instances", "rds_instances",
           "lambda_functions">>
    ELSE <<"vpcs", "ec2_instances", "availability_zones", "rds_instances",
           "lambda_functions", "cloudformation_stacks">>

\* The key an except clause fills in.
ErrorKey(category) ==
    CASE category = "vpcs" -> "vpcs_error"
      [] category = "security_groups" -> "security_groups_error"
      [] category = "ec2_instances" -> "ec2_instances_error"
      [] category = "availability_zones" -> "availability_zones_error"
      [] category = "rds_instances" -> "rds_instances_error"
      [] category = "lambda_functions" -> "lambda_functions_error"
      [] category = "cloudformation_stacks" -> "cloudformation_stacks_error"

\* The function each try statement calls.
Collector(category) ==
    CASE category = "vpcs" -> "get_vpcs"
      [] category = "security_groups" -> "get_security_groups"
      [] category = "ec2_instances" -> "get_instances"
      [] category = "availability_zones" -> "get_azs"
      [] category = "rds_instances" -> "get_rds"
      [] category = "lambda_functions" -> "get_lambdas"
      [] category = "cloudformation_stacks" -> "get_cfn_stacks"

\* What a collector returns for a region: here one resource, marked with the
\* region and the category it was listed in.
Listed(region, category) == <<[Region |-> region, Kind |-> category]>>

\* d[key] = value
Put(d, key, value) ==
    [k \in DOMAIN d \cup {key} |-> IF k = key THEN value ELSE d[k]]

\* d[key] = value on a dict kept as the sequence of its items: a key already
\* there keeps its place.
PutItem(items, key, value) ==
    IF \E n \in 1..Len(items) : items[n].key = key
    THEN [n \in 1..Len(items) |->
             IF items[n].key = key THEN [key |-> key, value |-> value]
             ELSE items[n]]
    ELSE Append(items, [key |-> key, value |-> value])

\* A call of a collector, and what it left.
Called(fn, region, outcome) == [fn |-> fn, region |-> region, outcome |-> outcome]

\* Mutant of AfterBuckets: the resources report collects IAM whether or
\* not include_iam is set.
AfterBucketsAlways(script, include_iam) ==
    IF script = "resources" THEN "iam" ELSE "regions"

\* Where build_report goes after the S3 buckets: the resources report
\* collects IAM when include_iam is set, the network report never does.
AfterBuckets(script, include_iam) ==
    IF script = "resources" /\ include_iam THEN "iam" ELSE "regions"

\* for region in regions: the statement that follows the i-th region, and
\* block = {}
NextRegion(i) ==
    /\ r_i' = i
    /\ r_j' = 1
    /\ r_block' = <<>>
    /\ r_pc' = IF i > Len(r_regions) THEN "return" ELSE "collect"

ReportsStart ==
    /\ r_pc = "build_report"
    /\ r_script \in {"network", "resources"}
    /\ r_include_iam \in (IF r_script = "resources" THEN BOOLEAN ELSE {FALSE})
    /\ \E n \in 0..MaxRegions : r_regions \in SeqsOfLen(RegionNames, n)
    /\ r_i = 0 /\ r_j = 0 /\ r_block = <<>>
    /\ r_report = Unset /\ r_calls = <<>> /\ r_errors = 0

\* An exception nothing catches leaves build_report: no report is returned.
Raise(exc) ==
    /\ r_pc' = exc
    /\ r_report' = Unset
    /\ UNCHANGED <<r_i, r_j, r_block>>

\* report = {...}: get_account_id() gives the account, or None on any
\* exception.
NewReport ==
    /\ r_pc = "build_report"
    /\ \E account \in {"123456789012", "None"} :
          /\ r_report' = [generated_at_utc |-> "utc_now_iso",
                          account_id |-> account,
                          s3_buckets |-> <<>>,
                          regions |-> <<>>]
          /\ r_calls' = Append(r_calls, Called("get_account_id", "", account))
    /\ r_pc' = "s3_buckets"
    /\ UNCHANGED <<r_script, r_include_iam, r_regions, r_i, r_j, r_block, r_errors>>

\* report["s3_buckets"] = get_s3_buckets(boto3.client("s3")): a ClientError
\* of list_buckets is caught inside and returned as an error item.
CollectBuckets ==
    /\ r_pc = "s3_buckets"
    /\ \E outcome \in {"ok", "ClientError", "BotoCoreError"} :
          /\ r_calls' = Append(r_calls, Called("get_s3_buckets", "", outcome))
          /\ IF outcome = "BotoCoreError"
             THEN Raise(outcome)
             ELSE /\ r_report' = [r_report EXCEPT !.s3_buckets =
                                     IF outcome = "ok" THEN Listed("", "s3_buckets")
                                     ELSE <<[error |-> "list_buckets failed"]>>]
                  /\ IF AfterBuckets(r_script, r_include_iam) = "iam"
                     THEN r_pc' = "iam" /\ UNCHANGED <<r_i, r_j, r_block>>
                     ELSE NextRegion(1)
    /\ UNCHANGED <<r_script, r_include_iam, r_regions, r_errors>>

\* if include_iam: try: report["iam"] = get_iam_inventory(...)
\* except ClientError as e: report["iam_error"] = str(e)
CollectIam ==
    /\ r_pc = "iam"
    /\ \E outcome \in {"ok", "ClientError", "BotoCoreError"} :
          /\ outcome = "ClientError" => r_errors < MaxErrors
          /\ r_calls' = Append(r_calls, Called("get_iam_inventory", "", outcome))
          /\ r_errors' = IF outcome = "ClientError" THEN r_errors + 1 ELSE r_errors
          /\ IF outcome = "BotoCoreError"
             THEN Raise(outcome)
             ELSE /\ r_report' =
                        IF outcome = "ok"
                        THEN Put(r_report, "iam",
                                 [users |-> Listed("", "users"),
                                  roles |-> Listed("", "roles")])
                        ELSE Put(r_report, "iam_error", "ClientError")
                  /\ NextRegion(1)
    /\ UNCHANGED <<r_script, r_include_iam, r_regions>>

\* Mutant of CollectCategory: one try statement around the whole loop
\* body, so that a ClientError leaves the rest of the region uncollected.
CollectCategoryGivingUp ==
    /\ r_pc = "collect"
    /\ LET region == r_regions[r_i]
           category == Categories(r_script)[r_j]
       IN  \E outcome \in {"ok", "ClientError", "BotoCoreError"} :
              /\ outcome = "ClientError" => r_errors < MaxErrors
              /\ r_calls' = Append(r_calls,
                                   Called(Collector(category), region, outcome))
              /\ r_errors' = IF outcome = "ClientError" THEN r_errors + 1
                             ELSE r_errors
              /\ IF outcome = "BotoCoreError"
                 THEN Raise(outcome)
                 ELSE /\ r_block' =
                            IF outcome = "ok"
                            THEN Put(r_block, category, Listed(region, category))
                            ELSE Put(r_block, ErrorKey(category), "ClientError")
                      /\ IF r_j = Len(Categories(r_script)) \/ outcome = "ClientError"
                         THEN r_pc' = "store" /\ r_j' = r_j
                         ELSE r_pc' = "collect" /\ r_j' = r_j + 1
                      /\ UNCHANGED <<r_i, r_report>>
    /\ UNCHANGED <<r_script, r_include_iam, r_regions>>

\* One try statement of the loop body:
\* try: block[category] = collector(client)
\* except ClientError as e: block[category_error] = str(e)
CollectCategory ==
    /\ r_pc = "collect"
    /\ LET region == r_regions[r_i]
           category == Categories(r_script)[r_j]
       IN  \E outcome \in {"ok", "ClientError", "BotoCoreError"} :
              /\ outcome = "ClientError" => r_errors < MaxErrors
              /\ r_calls' = Append(r_calls,
                                   Called(Collector(category), region, outcome))
              /\ r_errors' = IF outcome = "ClientError" THEN r_errors + 1
                             ELSE r_errors
              /\ IF outcome = "BotoCoreError"
                 THEN Raise(outcome)
                 ELSE /\ r_block' =
                            IF outcome = "ok"
                            THEN Put(r_block, category, Listed(region, category))
                            ELSE Put(r_block, ErrorKey(category), "ClientError")
                      /\ IF r_j = Len(Categories(r_script))
                         THEN r_pc' = "store" /\ r_j' = r_j
                         ELSE r_pc' = "collect" /\ r_j' = r_j + 1
                      /\ UNCHANGED <<r_i, r_report>>
    /\ UNCHANGED <<r_script, r_include_iam, r_regions>>

\* report["regions"][region] = block, and the loop goes to the next region
StoreBlock ==
    /\ r_pc = "store"
    /\ r_report' = [r_report EXCEPT !.regions =
                       PutItem(@, r_regions[r_i], r_block)]
    /\ NextRegion(r_i + 1)
    /\ UNCHANGED <<r_script, r_include_iam, r_regions, r_calls, r_errors>>

\* return report
ReturnReport ==
    /\ r_pc = "return"
    /\ r_pc' = "returned"
    /\ UNCHANGED <<r_script, r_include_iam, r_regions, r_i, r_j, r_block,
                   r_report, r_calls, r_errors>>

InitReports == MainIdle /\ CallsIdle /\ DownloaderIdle /\ ReportsStart

NextReports ==
    \/ NewReport /\ UNCHANGED <<mainVars, callVars, downloaderVars>>
    \/ CollectBuckets /\ UNCHANGED <<mainVars, callVars, downloaderVars>>
    \/ CollectIam /\ UNCHANGED <<mainVars, callVars, downloaderVars>>
    \/ CollectCategory /\ UNCHANGED <<mainVars, callVars, downloaderVars>>
    \/ StoreBlock /\ UNCHANGED <<mainVars, callVars, downloaderVars>>
    \/ ReturnReport /\ UNCHANGED <<mainVars, callVars, downloaderVars>>

SpecReports == InitReports /\ [][NextReports]_vars

---------------------------------------------------------------------------
(* Properties *)

\* The sum of the Cost column, by position.
CostSum(rows) ==
    LET f[i \in 0..Len(rows)] == IF i = 0 THEN 0 ELSE f[i - 1] + rows[i].Cost
    IN  f[Len(rows)]

Positions(rows) == 1..Len(rows)

\* analyze has returned the summary of a table with rows.
Analyzed == h_fn = "analyze" /\ ~empty(h_arg)

\* C1: for a non-empty table, total_cost is the sum of the costs and
\* average_cost is total_cost divided by the number of points.
C1_TotalAndAverage ==
    Analyzed =>
        LET summary == h_res.val
            n == Len(h_arg.rows)
        IN  /\ summary.total_cost = CostSum(h_arg.rows)
            /\ summary.average_cost.den > 0
            /\ summary.average_cost.num * n
                   = summary.total_cost * summary.average_cost.den

\* C1, its case: three points, two on one date, with different costs.
C1_Witness ==
    /\ Analyzed
    /\ Len(h_arg.rows) = 3
    /\ \E i, j \in Positions(h_arg.rows) :
          /\ i # j
          /\ h_arg.rows[i].Cost # h_arg.rows[j].Cost
          /\ h_arg.rows[i].Date = h_arg.rows[j].Date

ZeroSummary ==
    [total_cost |-> 0, average_cost |-> [num |-> 0, den |-> 1],
     max_cost |-> 0, max_cost_date |-> "None",
     min_cost |-> 0, min_cost_date |-> "None"]

\* C2: on an empty table analyze returns zeros and null dates, and does
\* not fail.
C2_EmptySummary ==
    (h_fn = "analyze" /\ empty(h_arg)) => h_res = Returned(ZeroSummary)

\* C2, its case: analyze has been called on the empty table.
C2_Witness == h_fn = "analyze" /\ empty(h_arg) /\ h_res.ok

\* The grouped series is well formed and carries no group.
EmptyDataset(doc) ==
    \A i \in 1..Len(doc) : HasStart(doc[i]) /\ GroupsOf(doc[i]) = <<>>

\* C3: a run whose grouped series carries no group does not crash, and the
\* report it writes shows the all-zero summary.
C3_EmptyDatasetReported ==
    (pc = "exited" /\ type_json # Unset /\ EmptyDataset(type_json.doc)) =>
        /\ exit # "KeyError"
        /\ exit = "0" =>
              report = Html(ZeroSummary, "images/cost_over_time.png",
                            "images/cost_per_instance_type.png")

\* C4: max_cost and min_cost are the largest and the smallest cost, and the
\* dates reported are those of the first point, in the order of the table,
\* that carries them; the table being sorted, the earliest such date.
C4_Extremes ==
    Analyzed =>
        LET rows == h_arg.rows
            summary == h_res.val
            first(c) == CHOOSE i \in Positions(rows) :
                            /\ rows[i].Cost = c
                            /\ \A j \in 1..i - 1 : rows[j].Cost # c
        IN  /\ \A i \in Positions(rows) :
                  summary.min_cost <= rows[i].Cost /\ rows[i].Cost <= summary.max_cost
            /\ \E i \in Positions(rows) : rows[i].Cost = summary.max_cost
            /\ \E i \in Positions(rows) : rows[i].Cost = summary.min_cost
            /\ summary.max_cost_date = strftime(rows[first(summary.max_cost)].Date)
            /\ summary.min_cost_date = strftime(rows[first(summary.min_cost)].Date)
            /\ \A i \in Positions(rows) :
                  /\ rows[i].Cost = summary.max_cost
                        => to_datetime(summary.max_cost_date) <= rows[i].Date
                  /\ rows[i].Cost = summary.min_cost
                        => to_datetime(summary.min_cost_date) <= rows[i].Date

\* C4, its case: the largest cost is carried on two dates, and another
\* point costs less.
C4_Witness ==
    /\ Analyzed
    /\ \E i, j, k \in Positions(h_arg.rows) :
          /\ h_arg.rows[i].Cost = h_res.val.max_cost
          /\ h_arg.rows[j].Cost = h_res.val.max_cost
          /\ h_arg.rows[i].Date < h_arg.rows[j].Date
          /\ h_arg.rows[k].Cost < h_res.val.max_cost

Derived == h_fn = "derive_daily_from_type"

\* C5: the costs of the derived daily table add up to the costs of the
\* per-type table.
C5_DeriveKeepsTotal ==
    Derived => h_res.ok /\ CostSum(h_res.val.rows) = CostSum(h_arg.rows)

\* C5, its case: three points of one date are summed into one.
C5_Witness ==
    /\ Derived /\ h_res.ok
    /\ Len(h_arg.rows) = 3 /\ Len(h_res.val.rows) = 1

\* C6: the derived table has exactly one point per date of the input, its
\* cost is the sum of the input costs of that date, and the dates ascend.
C6_DeriveGroupsByDate ==
    Derived =>
        /\ h_res.ok
        /\ LET in == h_arg.rows
               out == h_res.val.rows
               costs(d) == SelectSeq(in, LAMBDA r : r.Date = d)
           IN  /\ \A i \in Positions(in) :
                     Cardinality({k \in Positions(out) : out[k].Date = in[i].Date}) = 1
               /\ \A k \in Positions(out) :
                     /\ \E i \in Positions(in) : in[i].Date = out[k].Date
                     /\ out[k].Cost = CostSum(costs(out[k].Date))
               /\ \A k \in 1..Len(out) - 1 : out[k].Date < out[k + 1].Date

\* C6, its case: two points of one date, with different costs and labels,
\* have become one.
C6_Witness ==
    /\ Derived /\ h_res.ok
    /\ Len(h_arg.rows) = 2 /\ Len(h_res.val.rows) = 1
    /\ h_arg.rows[1].Cost # h_arg.rows[2].Cost
    /\ h_arg.rows[1].InstanceType # h_arg.rows[2].InstanceType

\* The table holds, for each entry of the total series, one point with the
\* entry's period start and amount, and nothing else, in ascending order of
\* date.
TotalSeriesNormalized ==
    /\ h_res.ok
    /\ LET rows == h_res.val.rows
       IN  /\ Len(rows) = Len(h_arg)
           /\ IsSortedBy(rows, "Date", TRUE)
           /\ \A i \in 1..Len(h_arg) :
                 /\ Cardinality({k \in Positions(rows) : rows[k].idx = i - 1}) = 1
                 /\ \A k \in Positions(rows) :
                       rows[k].idx = i - 1 =>
                          /\ rows[k].Date = to_datetime(h_arg[i].TimePeriod.Start)
                          /\ rows[k].Cost = float(h_arg[i].Total.UnblendedCost.Amount)

WellFormedTotal(doc) == \A i \in 1..Len(doc) : TotalEntryOk(doc[i])

\* C7: a total series of N well-formed entries is normalized into exactly N
\* points, one per entry, sorted by date.
C7_TotalSeriesRoundTrip ==
    (h_fn = "df_daily_total" /\ WellFormedTotal(h_arg)) => TotalSeriesNormalized

\* C7 holds of every total series that has an entry.
C7_WithAnEntry ==
    (h_fn = "df_daily_total" /\ WellFormedTotal(h_arg) /\ h_arg # <<>>)
        => TotalSeriesNormalized

\* The number of groups in the entries before entry i.
GroupsBefore(doc, i) ==
    LET f[k \in 0..Len(doc)] ==
            IF k = 0 THEN 0 ELSE f[k - 1] + Len(GroupsOf(doc[k]))
    IN  f[i - 1]

\* The table holds, for each group of each entry, one point with the
\* entry's period start, the group's first key (UNKNOWN without one) and the
\* group's amount, and nothing else.
GroupedSeriesNormalized ==
    /\ h_res.ok
    /\ LET rows == h_res.val.rows
       IN  /\ Len(rows) = GroupsBefore(h_arg, Len(h_arg) + 1)
           /\ \A i \in 1..Len(h_arg) : \A j \in 1..Len(GroupsOf(h_arg[i])) :
                 LET g == GroupsOf(h_arg[i])[j]
                     label == GroupsBefore(h_arg, i) + j - 1
                 IN  /\ Cardinality({k \in Positions(rows) : rows[k].idx = label}) = 1
                     /\ \A k \in Positions(rows) :
                           rows[k].idx = label =>
                              /\ rows[k].Date = to_datetime(h_arg[i].TimePeriod.Start)
                              /\ rows[k].Cost = float(g.Metrics.UnblendedCost.Amount)
                              /\ rows[k].InstanceType =
                                    (IF "Keys" \in DOMAIN g /\ Len(g.Keys) > 0
                                     THEN Head(g.Keys) ELSE "UNKNOWN")

WellFormedGrouped(doc) == \A i \in 1..Len(doc) : GroupedEntryOk(doc[i])

\* C8: a grouped series is normalized into exactly one point per group of
\* every entry, dated and labelled as the group is.
C8_GroupedSeriesPoints ==
    (h_fn = "df_by_type" /\ WellFormedGrouped(h_arg)) => GroupedSeriesNormalized

\* C8 holds of every grouped series that has a group.
C8_WithAGroup ==
    (h_fn = "df_by_type" /\ WellFormedGrouped(h_arg)
        /\ GroupsBefore(h_arg, Len(h_arg) + 1) > 0) => GroupedSeriesNormalized

Normalized == h_fn \in {"df_daily_total", "df_by_type"} /\ h_res.ok

\* C9 as stated: the normalizer's output is sorted by date, points of one
\* date in their input order.
C9_SortedStable ==
    Normalized =>
        LET rows == h_res.val.rows
        IN  /\ IsSortedBy(rows, "Date", TRUE)
            /\ \A i, j \in Positions(rows) :
                  (i < j /\ rows[i].Date = rows[j].Date) => rows[i].idx < rows[j].idx

\* C9 amended: the normalizer's output is sorted by date and holds each
\* input point once; the order of the points of one date is not fixed.
C9_SortedPermutation ==
    Normalized =>
        LET rows == h_res.val.rows
        IN  /\ \A i \in 1..Len(rows) - 1 : rows[i].Date <= rows[i + 1].Date
            /\ \A label \in 0..Len(rows) - 1 :
                  Cardinality({k \in Positions(rows) : rows[k].idx = label}) = 1

\* C9, its case: the sort has moved a point, and two points of one date
\* have come out against their input order.
C9_Witness ==
    /\ Normalized
    /\ \E i, j \in Positions(h_res.val.rows) :
          /\ i < j
          /\ h_res.val.rows[i].Date = h_res.val.rows[j].Date
          /\ h_res.val.rows[i].idx > h_res.val.rows[j].idx
    /\ \E i, j \in Positions(h_res.val.rows) :
          /\ i < j
          /\ h_res.val.rows[i].Date < h_res.val.rows[j].Date
          /\ h_res.val.rows[i].idx > h_res.val.rows[j].idx

\* An entry of a document that was read lacks its period start or an amount.
MalformedRead ==
    \/ type_json # Unset /\ ~WellFormedGrouped(type_json.doc)
    \/ daily_json # Unset /\ ~WellFormedTotal(daily_json.doc)

\* C10: a run that reads an entry lacking a required field ends with an
\* error, having written no report and no chart and printed no success.
C10_MalformedInputFails ==
    MalformedRead =>
        /\ pc = "exited" /\ exit = "KeyError"
        /\ report = Absent /\ line_png = Absent /\ bar_png = Absent
        /\ stdout = <<>>

\* C10, its case: the total series lacks a field in an entry that follows a
\* well-formed one, after the grouped series was normalized.
C10_Witness ==
    /\ pc = "exited" /\ exit = "KeyError"
    /\ daily_json # Unset
    /\ Len(daily_json.doc) = 2
    /\ TotalEntryOk(daily_json.doc[1])
    /\ ~TotalEntryOk(daily_json.doc[2])

\* The tables among the outcomes of a call.
TablesOf(outcomes) == {r.val : r \in {o \in outcomes : o.ok}}

\* C11: when the total-series file exists, the daily table that analyze and
\* plot_daily are given is the normalized total series, whatever the grouped
\* series adds up to; it is derived from the grouped series only when the
\* file is absent, and then no total series is read.
C11_DataSourceSelection ==
    /\ pc = "daily" => df_daily = Unset /\ daily_exists = "?"
    /\ daily_json # Unset => daily_exists = "yes"
    /\ (df_daily # Unset /\ daily_exists = "yes") =>
          /\ daily_json # Unset
          /\ df_daily \in TablesOf(df_daily_total(daily_json.doc))
    /\ (df_daily # Unset /\ daily_exists = "no") =>
          df_daily \in TablesOf(derive_daily_from_type(df_type))
    /\ pc \in {"analyze", "plot_daily"} => df_daily # Unset
    /\ analysis # Unset => analysis = analyze(df_daily)

\* C11, its case: the total series that was read does not add up to the
\* grouped series, and it has been summarized and is about to be drawn.
C11_Witness ==
    /\ pc = "plot_daily" /\ daily_exists = "yes"
    /\ df_daily \notin TablesOf(derive_daily_from_type(df_type))
    /\ CostSum(df_daily.rows) # CostSum(df_type.rows)
    /\ analysis.total_cost = CostSum(df_daily.rows)

\* C12 as stated: a run without the grouped-series file ends with status 1
\* and the message naming the path, having read no input and written no
\* image, no report and no success line; without the total-series file
\* alone the run goes on, and can only fail later in writing its output.
C12_MissingRequiredInput ==
    /\ (type_exists = "no" /\ pc = "exited") => exit = MissingRequiredInput
    /\ type_exists = "no" =>
          /\ pc \in {"start", "check", "exited"} /\ exit # "0"
          /\ daily_exists = "?" /\ type_json = Unset /\ daily_json = Unset
          /\ line_png = Absent /\ bar_png = Absent /\ report = Absent
          /\ stdout = <<>>
    /\ daily_exists = "no" =>
          /\ type_exists = "yes" /\ type_json # Unset
          /\ exit \in {"", "0", "OSError"}
          /\ pc = "exited" \/ df_daily # Unset

\* C12 amended: a run without the grouped-series file ends with a non-zero
\* status, having read no input and written no image, no report and no
\* success line: with the message naming the path once the output
\* directories are in place, and with the OSError of os.makedirs, which runs
\* before the check, when they cannot be made.  Without the total-series
\* file alone the run goes on, and can only fail later in writing its output.
C12_MissingInputAfterMakedirs ==
    /\ (type_exists = "no" /\ pc = "exited") =>
          \/ exit = MissingRequiredInput /\ images_dir = "directory"
          \/ exit = "OSError" /\ images_dir # "directory"
    /\ type_exists = "no" =>
          /\ pc \in {"start", "check", "exited"} /\ exit # "0"
          /\ daily_exists = "?" /\ type_json = Unset /\ daily_json = Unset
          /\ line_png = Absent /\ bar_png = Absent /\ report = Absent
          /\ stdout = <<>>
    /\ daily_exists = "no" =>
          /\ type_exists = "yes" /\ type_json # Unset
          /\ exit \in {"", "0", "OSError"}
          /\ pc = "exited" \/ df_daily # Unset

\* C12, its case: the grouped-series file is missing, the directories were
\* made and the run has ended with the message.
C12_Witness ==
    /\ type_exists = "no" /\ pc = "exited" /\ exit = MissingRequiredInput
    /\ images_dir = "directory"

\* C12, where the statement fails: the grouped-series file is missing, a
\* file is in the way of the output directories, and the run has ended with
\* OSError and no message about the input.
C12_MakedirsFailed ==
    /\ type_exists = "no" /\ pc = "exited" /\ exit = "OSError"
    /\ images_dir = "not a directory"

\* C12, its other case: the total-series file was missing and the run ended
\* well.
C12_WithoutTotalSeries ==
    daily_exists = "no" /\ pc = "exited" /\ exit = "0" /\ stdout # <<>>

UniqueDates(df) ==
    \A i, j \in Positions(df.rows) : df.rows[i].Date = df.rows[j].Date => i = j

\* C13: the daily table that reaches analyze and plot_daily has no two
\* points of one date, normalized or derived.
C13_UniqueDates == df_daily # Unset => UniqueDates(df_daily)

\* C13 holds of every daily table derived from the grouped series.
C13_DerivedUniqueDates ==
    (df_daily # Unset /\ daily_exists = "no") => UniqueDates(df_daily)

\* The table plot_by_type draws has one row per instance type of df_type,
\* carrying the sum of the type's costs, largest total first.
BarTableOf(totals, by_type) ==
    LET in == by_type.rows
        out == totals.rows
        costs(t) == SelectSeq(in, LAMBDA r : r.InstanceType = t)
    IN  /\ \A i \in Positions(in) :
              Cardinality({k \in Positions(out) :
                              out[k].InstanceType = in[i].InstanceType}) = 1
        /\ \A k \in Positions(out) :
              /\ \E i \in Positions(in) : in[i].InstanceType = out[k].InstanceType
              /\ out[k].Cost = CostSum(costs(out[k].InstanceType))
        /\ \A k \in 1..Len(out) - 1 : out[k].Cost >= out[k + 1].Cost

\* C14 as stated: the table plot_by_type draws is as above, and rows of
\* equal totals are in the order the grouping produced them.
C14_BarTableStable ==
    bar_totals # Unset =>
        /\ BarTableOf(bar_totals, df_type)
        /\ \A i, j \in Positions(bar_totals.rows) :
              (i < j /\ bar_totals.rows[i].Cost = bar_totals.rows[j].Cost)
                  => bar_totals.rows[i].idx < bar_totals.rows[j].idx

\* C14 amended: the table plot_by_type draws has one row per instance type,
\* carrying the sum of the type's costs over all dates, largest total first;
\* the order of the rows of equal totals is not fixed.
C14_BarTable == bar_totals # Unset => BarTableOf(bar_totals, df_type)

\* C14, its case: two types of equal totals are drawn against the order of
\* the grouping.
C14_Witness ==
    /\ bar_totals # Unset
    /\ Len(bar_totals.rows) = 2
    /\ bar_totals.rows[1].Cost = bar_totals.rows[2].Cost
    /\ bar_totals.rows[1].idx > bar_totals.rows[2].idx

\* C14, its other case: of two types the grouping produced the smaller
\* total first, and the larger one is summed from two points.
C14_Reordered ==
    /\ bar_totals # Unset
    /\ Len(df_type.rows) = 3
    /\ Len(bar_totals.rows) = 2
    /\ bar_totals.rows[1].Cost > bar_totals.rows[2].Cost
    /\ bar_totals.rows[1].idx > bar_totals.rows[2].idx

\* C15: the report path holds no file of this run or the whole document.
C15_ReportAtomic == report.state \in {"absent", "complete"}

\* C19: the report is opened only once both images are written, the second
\* image only once the first is, and the success line is printed only once
\* the report is complete; a run that fails has printed nothing, and has
\* written nothing at all if it failed before the charts.
C19_PipelineOrder ==
    /\ bar_png # Absent => line_png = Image
    /\ report # Absent => line_png = Image /\ bar_png = Image
    /\ stdout # <<>> => report.state = "complete" /\ pc = "exited" /\ exit = "0"
    /\ (pc = "exited" /\ exit # "0") => stdout = <<>>
    /\ (pc = "exited" /\ exit \in {MissingRequiredInput, "KeyError"}) =>
          line_png = Absent /\ bar_png = Absent /\ report = Absent
    /\ pc \in {"start", "check", "load_type", "daily", "analyze", "plot_daily"} =>
          line_png = Absent /\ bar_png = Absent /\ report = Absent
    /\ pc \in {"plot_by_type", "open_report"} => report = Absent

\* C19, its case: the run has ended well, with the report and both images.
C19_Witness ==
    /\ pc = "exited" /\ exit = "0" /\ stdout # <<>>
    /\ report.state = "complete" /\ line_png = Image /\ bar_png = Image

\* C19, its other case: the second chart failed part-way after the first
\* was written, and no report was begun.
C19_FailedChart ==
    /\ pc = "exited" /\ exit = "OSError"
    /\ line_png = Image /\ bar_png = Partial /\ report = Absent

\* Days of the calendar, written out: the weeks around the dates drawn.
Ymd(y, m, d) == DateText(y, m, d, TRUE)
CalendarDays ==
    {<<Ymd(2024, 2, 23), Ymd(2024, 2, 24), Ymd(2024, 2, 25), Ymd(2024, 2, 26),
       Ymd(2024, 2, 27), Ymd(2024, 2, 28), Ymd(2024, 2, 29), Ymd(2024, 3, 1),
       Ymd(2024, 3, 2), Ymd(2024, 3, 3)>>,
     <<Ymd(2023, 12, 26), Ymd(2023, 12, 27), Ymd(2023, 12, 28),
       Ymd(2023, 12, 29), Ymd(2023, 12, 30), Ymd(2023, 12, 31),
       Ymd(2024, 1, 1), Ymd(2024, 1, 2)>>}

\* The day k days after the day t names (before it, for a negative k).
DayOffset(t, k) ==
    LET day == [t EXCEPT !.padded = TRUE]
        week == CHOOSE w \in CalendarDays : \E i \in 1..Len(w) : w[i] = day
        i == CHOOSE j \in 1..Len(week) : week[j] = day
    IN  IF k = -30
        THEN CASE day = Ymd(2024, 3, 1) -> Ymd(2024, 1, 31)
               [] day = Ymd(2024, 2, 28) -> Ymd(2024, 1, 29)
               [] day = Ymd(2023, 12, 31) -> Ymd(2023, 12, 1)
        ELSE week[i + k]

\* The current date, written out.
TodayText(today) ==
    CASE today = 738946 -> Ymd(2024, 3, 1)
      [] today = 738944 -> Ymd(2024, 2, 28)
      [] today = 738885 -> Ymd(2023, 12, 31)

\* The command line carries --start and --end, both dates of the calendar.
ExplicitRange ==
    /\ d_argv.start.given /\ strptime(d_argv.start.value).ok
    /\ d_argv.end.given /\ strptime(d_argv.end.value).ok

\* Every request of the run asks for the period from start to end.
Queried(start, end) ==
    \A i \in 1..Len(d_requests) :
        d_requests[i].TimePeriod = [Start |-> start, End |-> end]

\* C16: with --start S and --end E the period asked of Cost Explorer is
\* Start = S and End = the day after E; a command line with neither is
\* accepted, and the period asked is then Start = today minus --days (30 when
\* left out) and End = the day after today.
C16_InclusiveEnd ==
    /\ ExplicitRange =>
          Queried(d_argv.start.value, DayOffset(d_argv.end.value, 1))
    /\ (~d_argv.start.given /\ ~d_argv.end.given) =>
          /\ d_exit # UsageError
          /\ LET days == IF d_argv.days.given THEN d_argv.days.value ELSE 30
             IN  Queried(DayOffset(TodayText(d_today), 0 - days),
                         DayOffset(TodayText(d_today), 1))

\* C16 holds of the runs given --start and --end: the period asked is
\* Start = S as it was typed and End = the day after E.
C16_ExplicitRange ==
    ExplicitRange =>
        /\ d_exit # UsageError
        /\ Queried(d_argv.start.value, DayOffset(d_argv.end.value, 1))
        /\ d_pc = "get_by_type" => Len(d_requests) = 1

\* C16, the explicit range at work: --end is the last day of February of a
\* leap year, --start is typed without padding, and both requests were sent.
C16_EndOfMonth ==
    /\ Len(d_requests) = 2
    /\ d_argv.end.value = Ymd(2024, 2, 29)
    /\ d_argv.start.value = DateText(2024, 2, 28, FALSE)
    /\ d_requests[2].TimePeriod.End = Ymd(2024, 3, 1)

\* C16 holds of the function: date_range_from_days(D) is the period from
\* today minus D days to the day after today.
C16_DaysRange ==
    h_fn = "date_range_from_days" =>
        h_res.val = <<DayOffset(TodayText(h_arg.today), 0 - h_arg.days),
                      DayOffset(TodayText(h_arg.today), 1)>>

\* C16, the function at work: the range crosses into February, and the
\* exclusive end into the next year.
C16_DaysRangeCase ==
    /\ h_fn = "date_range_from_days"
    /\ \/ h_arg.days = 1 /\ h_res.val[1] = Ymd(2024, 2, 29)
       \/ h_arg.days = 30 /\ h_res.val[2] = Ymd(2024, 1, 1)

\* A file of the output directory is as the run found it.
Untouched(file) == file \in {Absent, Previous}

\* C20: an output file is written only after get_cost_total and then
\* get_cost_by_instance_type have both answered; when either raises a
\* ClientError the run ends with the error message, both files as they were
\* and nothing printed.
C20_AllOrNothing ==
    /\ Len(d_requests) <= 2
    /\ Len(d_requests) >= 1 => d_requests[1].fn = "get_cost_total"
    /\ Len(d_requests) = 2 =>
          /\ d_requests[1].response = "ok"
          /\ d_requests[2].fn = "get_cost_by_instance_type"
    /\ (~Untouched(d_total_file) \/ ~Untouched(d_type_file)) =>
          /\ Len(d_requests) = 2
          /\ d_requests[2].response = "ok"
    /\ ~Untouched(d_type_file) => d_total_file.state = "complete"
    /\ (\E i \in 1..Len(d_requests) : d_requests[i].response = "ClientError") =>
          /\ d_pc = "exited" /\ d_exit = CostExplorerError
          /\ Untouched(d_total_file) /\ Untouched(d_type_file)
          /\ d_stdout = <<>>

\* C20, its case: the second call raised a ClientError after the first had
\* answered with results, and the files of an earlier run are in place.
C20_Witness ==
    /\ Len(d_requests) = 2
    /\ d_requests[2].response = "ClientError"
    /\ d_pc = "exited" /\ d_exit = CostExplorerError
    /\ d_total_file = Previous /\ d_type_file = Previous

\* C20, its other case: both calls answered and both files were written
\* over those of an earlier run.
C20_Written ==
    /\ d_pc = "exited" /\ d_exit = "0"
    /\ d_total_file.state = "complete" /\ d_type_file.state = "complete"
    /\ d_total_file.doc # <<>>

\* The keys of the report, and the calls of a collector.
ReportKeys == IF r_report = Unset THEN {} ELSE DOMAIN r_report
CallsOf(fn) == {n \in 1..Len(r_calls) : r_calls[n].fn = fn}

\* build_report has left the IAM step behind.
PastIam == r_pc \in {"collect", "store", "return", "returned"}

\* Every region of the list has a block in the report.
AllRegionsCollected ==
    \A i \in 1..Len(r_regions) :
        \E n \in 1..Len(r_report.regions) :
            r_report.regions[n].key = r_regions[i]

\* C17: in the resources report, without --include-iam get_iam_inventory is
\* never called and the report has neither "iam" nor "iam_error"; with it
\* the inventory is asked for once and the report has "iam" when it was
\* returned and "iam_error" when it raised ClientError, never both; either
\* way the report returned has a block for every region.
C17_IamOptIn ==
    r_script = "resources" =>
        /\ ~r_include_iam =>
              /\ CallsOf("get_iam_inventory") = {}
              /\ "iam" \notin ReportKeys /\ "iam_error" \notin ReportKeys
        /\ (r_include_iam /\ PastIam) =>
              /\ Cardinality(CallsOf("get_iam_inventory")) = 1
              /\ ("iam" \in ReportKeys) # ("iam_error" \in ReportKeys)
              /\ \A n \in CallsOf("get_iam_inventory") :
                    /\ r_calls[n].outcome = "ok" => "iam" \in ReportKeys
                    /\ r_calls[n].outcome = "ClientError" =>
                          "iam_error" \in ReportKeys
        /\ r_pc = "returned" => AllRegionsCollected
        /\ r_pc = "BotoCoreError" =>
              r_calls[Len(r_calls)].outcome = "BotoCoreError"

\* C17, its case: the IAM inventory raised ClientError, and the report was
\* returned with iam_error and the blocks of two regions.
C17_Witness ==
    /\ r_script = "resources" /\ r_include_iam /\ r_pc = "returned"
    /\ "iam_error" \in ReportKeys
    /\ Len(r_report.regions) = 2

\* C17, its other case: without the flag the report was returned with the
\* blocks of two regions.
C17_WithoutIam ==
    /\ r_script = "resources" /\ ~r_include_iam /\ r_pc = "returned"
    /\ Len(r_report.regions) = 2

\* The elements of a sequence, each once, in the order they first occur.
Distinct(seq) ==
    LET f[n \in 0..Len(seq)] ==
            IF n = 0 THEN <<>>
            ELSE IF \E m \in 1..n - 1 : seq[m] = seq[n] THEN f[n - 1]
                 ELSE Append(f[n - 1], seq[n])
    IN  f[Len(seq)]

\* What the last call of the category's collector for the region left.
LastAnswer(region, category) ==
    LET calls == {n \in CallsOf(Collector(category)) : r_calls[n].region = region}
        last == CHOOSE n \in calls : \A m \in calls : m <= n
    IN  r_calls[last].outcome

\* C18: the report returned holds one block per region of the list, in the
\* order of the list; a block holds, for every category, the list collected
\* or the category's error key, never both and nothing else, as the
\* collector answered; every category of every region was asked for, and
\* only an exception that is not a ClientError ends build_report early.
C18_RegionBlocks ==
    /\ r_pc = "returned" =>
          LET items == r_report.regions
              categories == Categories(r_script)
              keys == {categories[j] : j \in 1..Len(categories)}
          IN  /\ [n \in 1..Len(items) |-> items[n].key] = Distinct(r_regions)
              /\ \A n \in 1..Len(items) :
                    LET region == items[n].key
                        block == items[n].value
                    IN  /\ DOMAIN block \subseteq
                               keys \cup {ErrorKey(c) : c \in keys}
                        /\ \A c \in keys :
                              /\ (c \in DOMAIN block) # (ErrorKey(c) \in DOMAIN block)
                              /\ LastAnswer(region, c) = "ok" =>
                                    /\ c \in DOMAIN block
                                    /\ block[c] = Listed(region, c)
                              /\ LastAnswer(region, c) = "ClientError" =>
                                    ErrorKey(c) \in DOMAIN block
              /\ \A c \in keys :
                    Cardinality(CallsOf(Collector(c))) = Len(r_regions)
    /\ r_pc = "BotoCoreError" =>
          r_calls[Len(r_calls)].outcome = "BotoCoreError"
    /\ r_pc \in {"build_report", "s3_buckets", "iam", "collect", "store",
                 "return", "returned", "BotoCoreError"}

\* C18, its case: the first category of the first region and a later
\* category of the second raised ClientError, and the report was returned
\* with both blocks, the other categories collected.
C18_Witness ==
    /\ r_pc = "returned"
    /\ Len(r_report.regions) = 2
    /\ "vpcs_error" \in DOMAIN r_report.regions[1].value
    /\ "ec2_instances" \in DOMAIN r_report.regions[1].value
    /\ "rds_instances_error" \in DOMAIN r_report.regions[2].value
    /\ "lambda_functions" \in DOMAIN r_report.regions[2].value

\* C18, its other case: a region listed twice was collected twice and has
\* one block, that of the second collection.
C18_RegionTwice ==
    /\ r_pc = "returned"
    /\ Len(r_regions) = 2 /\ Len(r_report.regions) = 1
    /\ "vpcs" \in DOMAIN r_report.regions[1].value
    /\ \E n \in CallsOf("get_vpcs") : r_calls[n].outcome = "ClientError"

\* The command line carries exactly one of --start and --end, a date of the
\* calendar.
OneOfStartEnd ==
    \/ /\ d_argv.start.given /\ strptime(d_argv.start.value).ok
       /\ ~d_argv.end.given
    \/ /\ d_argv.end.given /\ strptime(d_argv.end.value).ok
       /\ ~d_argv.start.given

\* The period of --days: from today minus the days (30 when left out) to the
\* day after today.
DaysRangeQueried ==
    LET days == IF d_argv.days.given THEN d_argv.days.value ELSE 30
    IN  Queried(DayOffset(TodayText(d_today), 0 - days),
                DayOffset(TodayText(d_today), 1))

\* C21: a run asks for the explicit range only when --start and --end are
\* both given; given exactly one of them the run raises no error on that
\* account and asks for the period of --days ending today.
C21_OneOfStartEndIgnored ==
    /\ (d_requests # <<>> /\ ~ExplicitRange) => DaysRangeQueried
    /\ OneOfStartEnd =>
          /\ d_exit # UsageError
          /\ d_pc = "exited" => d_requests # <<>> \/ d_exit = "OSError"
          /\ DaysRangeQueried

\* C21 holds in its first half: every request of a run was sent with both
\* --start and --end given, for the period they name.
C21_ExplicitOnlyWithBoth ==
    d_requests # <<>> =>
        /\ ExplicitRange
        /\ Queried(d_argv.start.value, DayOffset(d_argv.end.value, 1))

\* C21, where it fails: --start alone, a date of the calendar, and the run
\* has ended with the usage error, no request sent.
C21_StartAloneRejected ==
    /\ d_argv.start.given /\ strptime(d_argv.start.value).ok
    /\ ~d_argv.end.given
    /\ d_pc = "exited" /\ d_exit = UsageError /\ d_requests = <<>>

====
